---------------------------- MODULE Spec2Model ----------------------------
(***************************************************************************)
(* A model of the Auckland Transport MCP adapter: the shared ATService     *)
(* client (src/src/at_service.py), the pydantic schema it validates the    *)
(* upstream JSON against (src/src/gtfs_types.py) and the two tools that    *)
(* delegate to it (src/src/app.py).                                        *)
(*                                                                         *)
(* Python strings that the code inspects character by character (the tool  *)
(* argument, stop_name, the stop_id of a stop trip) are sequences of       *)
(* one-character strings; all other strings are TLA+ strings.  A JSON      *)
(* value is a record [t |-> its JSON type, v |-> its payload].             *)
(***************************************************************************)
EXTENDS Integers, Sequences, FiniteSets, TLC

(***************************************************************************)
(* Bounds of the model.                                                    *)
(***************************************************************************)
\* Longest tool argument that is enumerated.
MaxLen == 2
\* Longest "data" list the upstream returns.
MaxRecords == 2
\* Number of invocations the hosting runtime may have in flight.
NumInv == 2
\* Number of times the wall clock moves into the next hour.
MaxTicks == 1

\* Hours in a calendar day: "%H" ranges over 00-23.
HoursPerDay == 24

Invocations == 1..NumInv

(***************************************************************************)
(* Python str operations used by ATService.                                *)
(***************************************************************************)
Chars == {"a", "A", "b", " "}
Whitespace == {" "}

RECURSIVE SeqsUpTo(_, _)
SeqsUpTo(S, n) ==
    IF n = 0 THEN {<<>>}
    ELSE LET shorter == SeqsUpTo(S, n - 1)
         IN  shorter \cup {Append(s, c) : s \in {t \in shorter : Len(t) = n - 1}, c \in S}

\* str.lower() on one character.
LowerChar(c) == IF c = "A" THEN "a" ELSE IF c = "B" THEN "b" ELSE c

\* str.lower()
lower(s) == [k \in 1..Len(s) |-> LowerChar(s[k])]

RECURSIVE lstrip(_)
lstrip(s) == IF s # <<>> /\ Head(s) \in Whitespace THEN lstrip(Tail(s)) ELSE s

RECURSIVE rstrip(_)
rstrip(s) ==
    IF s # <<>> /\ s[Len(s)] \in Whitespace THEN rstrip(SubSeq(s, 1, Len(s) - 1)) ELSE s

\* str.strip(): leading and trailing whitespace removed.
strip(s) == rstrip(lstrip(s))

\* Python's  sub in s  on strings: sub occurs in s as a contiguous run.
contains(s, sub) ==
    \E k \in 0..(Len(s) - Len(sub)) : SubSeq(s, k + 1, k + Len(sub)) = sub

(***************************************************************************)
(* Tool arguments: None, or a str.                                         *)
(***************************************************************************)
None == [isNone |-> TRUE, str |-> <<>>]
Str(s) == [isNone |-> FALSE, str |-> s]
Inputs == {None} \cup {Str(s) : s \in SeqsUpTo(Chars, MaxLen)}

(***************************************************************************)
(* The schema of gtfs_types.py: each attribute with its declared type.     *)
(***************************************************************************)
StopAttributes ==
    [location_type |-> "int", stop_code |-> "str", stop_id |-> "str",
     stop_lat |-> "float", stop_lon |-> "float", stop_name |-> "str",
     wheelchair_boarding |-> "int"]

StopTripAttributes ==
    [arrival_time |-> "str", departure_time |-> "str", direction_id |-> "int",
     drop_off_type |-> "int", pickup_type |-> "int", route_id |-> "str",
     service_date |-> "str", shape_id |-> "str", stop_headsign |-> "str",
     stop_id |-> "str", stop_sequence |-> "int", trip_headsign |-> "str"]

\* The envelope fields of Stop and of StopTrip besides "attributes".
Stop == [type |-> "str", id |-> "str"]
StopTrip == [type |-> "str", id |-> "str"]

\* The strings that read as an integer, and as a decimal number.
IntegerStrings == {"0", "1", "2"}
DecimalStrings == {"-36.848", "-36.9", "174.763"}

\* What a field declared of type `declared` takes.  The model classes set
\* no strict mode, so pydantic converts where it can: a float field takes a
\* JSON integer, and a numeric field takes a string that reads as a number
\* of its type; a str field takes only a JSON string.
Accepts(declared, value) ==
    \/ declared = value.t
    \/ declared = "float" /\ value.t = "int"
    \/ declared = "int" /\ value.t = "str" /\ value.v \in IntegerStrings
    \/ declared = "float" /\ value.t = "str"
          /\ value.v \in IntegerStrings \cup DecimalStrings

\* One envelope of the "data" list validates against the model class.
ValidRecord(envelope, attributes, raw) ==
    /\ DOMAIN envelope \cup {"attributes"} \subseteq DOMAIN raw
    /\ \A f \in DOMAIN envelope : Accepts(envelope[f], raw[f])
    /\ DOMAIN attributes \subseteq DOMAIN raw.attributes
    /\ \A f \in DOMAIN attributes : Accepts(attributes[f], raw.attributes[f])

\* The model object built from a valid envelope: the declared fields, each
\* with its value converted to the declared type.
ParseRecord(envelope, attributes, raw) ==
    [type |-> raw.type.v, id |-> raw.id.v,
     attributes |-> [f \in DOMAIN attributes |-> raw.attributes[f].v]]

\* A validation that drops the records that do not validate and keeps the
\* others.
model_validate_skip_invalid(envelope, attributes, obj) ==
    IF obj.hasData
    THEN [ok |-> TRUE,
          data |-> [k \in 1..Len(SelectSeq(obj.data,
                                  LAMBDA raw : ValidRecord(envelope, attributes, raw))) |->
                       ParseRecord(envelope, attributes,
                                   SelectSeq(obj.data,
                                     LAMBDA raw : ValidRecord(envelope, attributes, raw))[k])]]
    ELSE [ok |-> FALSE, data |-> <<>>]

\* BaseModel.model_validate for a response class  data: List[...]: a
\* ValidationError unless "data" is there and every record validates; no
\* record is skipped.
model_validate(envelope, attributes, obj) ==
    IF /\ obj.hasData
       /\ \A k \in 1..Len(obj.data) : ValidRecord(envelope, attributes, obj.data[k])
    THEN [ok |-> TRUE,
          data |-> [k \in 1..Len(obj.data) |->
                       ParseRecord(envelope, attributes, obj.data[k])]]
    ELSE [ok |-> FALSE, data |-> <<>>]

StopResponse_model_validate(obj) == model_validate(Stop, StopAttributes, obj)
StopTripResponse_model_validate(obj) == model_validate(StopTrip, StopTripAttributes, obj)


(***************************************************************************)
(* What the upstream API may answer.                                       *)
(***************************************************************************)
J(t, v) == [t |-> t, v |-> v]

\* A well-formed stop envelope, as in the scenario of the specification.
RawStop(id, stop_name) ==
    [type |-> J("str", "stop"), id |-> J("str", id),
     attributes |->
        [location_type |-> J("int", "0"), stop_code |-> J("str", "100"),
         stop_id |-> J("str", id), stop_lat |-> J("float", "-36.848"),
         stop_lon |-> J("float", "174.763"), stop_name |-> J("str", stop_name),
         wheelchair_boarding |-> J("int", "1")]]

\* A well-formed stop-trip envelope.
RawStopTrip(id, stop_id) ==
    [type |-> J("str", "stoptrip"), id |-> J("str", id),
     attributes |->
        [arrival_time |-> J("str", "08:00:00"), departure_time |-> J("str", "08:01:00"),
         direction_id |-> J("int", "0"), drop_off_type |-> J("int", "0"),
         pickup_type |-> J("int", "0"), route_id |-> J("str", "R1"),
         service_date |-> J("str", "D1"), shape_id |-> J("str", "S1"),
         stop_headsign |-> J("str", "H"), stop_id |-> J("str", stop_id),
         stop_sequence |-> J("int", "1"), trip_headsign |-> J("str", "T")]]

\* The envelope with one attribute absent.
Without(raw, f) ==
    [raw EXCEPT !.attributes = [g \in DOMAIN raw.attributes \ {f} |-> raw.attributes[g]]]

\* The envelope with one attribute given as a value of another JSON type.
Mistyped(raw, f, value) ==
    [raw EXCEPT !.attributes[f] = value]

RawStops ==
    {Mistyped(RawStop("1", <<"A", "b">>), "stop_lon", J("int", "174")),
     Mistyped(RawStop("2", <<"b", " ", "B">>), "stop_lat", J("str", "-36.9")),
     Without(RawStop("3", <<"a">>), "stop_lat"),
     Mistyped(RawStop("4", <<"a", "b">>), "stop_lat", J("str", "n/a"))}

RawStopTrips ==
    {RawStopTrip("t1", <<"a">>),
     Mistyped(RawStopTrip("t2", <<"b">>), "stop_sequence", J("str", "2")),
     Without(RawStopTrip("t3", <<"a">>), "arrival_time"),
     Mistyped(RawStopTrip("t4", <<"a">>), "stop_sequence", J("str", "n/a"))}

\* A response body: not JSON at all, a JSON object without "data" (an
\* error object), or a JSON object with a "data" list.
NotJson == [json |-> FALSE, hasData |-> FALSE, data |-> <<>>]
ErrorObject == [json |-> TRUE, hasData |-> FALSE, data |-> <<>>]
JsonData(list) == [json |-> TRUE, hasData |-> TRUE, data |-> list]

\* What requests.request meets: no response at all (a transport failure),
\* or a response with a status code and a body.
TransportFailure == [sent |-> FALSE, status |-> 0, body |-> NotJson]
HTTP(status, body) == [sent |-> TRUE, status |-> status, body |-> body]
Statuses == {200, 500}

Bodies(records) ==
    {NotJson, ErrorObject} \cup {JsonData(l) : l \in SeqsUpTo(records, MaxRecords)}

AllReplies(records) ==
    {TransportFailure} \cup {HTTP(s, b) : s \in Statuses, b \in Bodies(records)}

StopReplies == AllReplies(RawStops)
StopTripReplies == AllReplies(RawStopTrips)

\* The replies the upstream may give to a request of tool o.
Replies(o) == IF o = "search_stop" THEN StopReplies ELSE StopTripReplies


(***************************************************************************)
(* URLs.  A URL is the sequence of its pieces: a piece is literal text or  *)
(* a placeholder of the template with the characters substituted for it.   *)
(***************************************************************************)
Lit(text) == [text |-> text, hole |-> "", chars |-> <<>>]
Hole(key) == [text |-> "", hole |-> key, chars |-> <<>>]

\* ATService.URL_MAP
URL_MAP ==
    [search_stop |-> <<Lit("/stops?filter[date]="), Hole("journey_date")>>,
     stop_trips_by_stop_id |->
        <<Lit("/stops/"), Hole("stop_id"), Lit("/stoptrips?filter[date]="),
          Hole("journey_date"), Lit("&filter[start_hour]="), Hole("journey_hour")>>]

\* str.format(**kwargs): every placeholder replaced by its argument.
format(template, kwargs) ==
    [k \in 1..Len(template) |->
        IF template[k].hole = "" THEN template[k]
        ELSE [template[k] EXCEPT !.chars = kwargs[template[k].hole]]]

\* The characters a URL carries for placeholder key.
UrlArg(u, key) == u[CHOOSE k \in 1..Len(u) : u[k].hole = key].chars

\* The values of the environment variables read by ATService.__init__.
AT_BASE_URL == <<Lit("https://api.at.govt.nz/gtfs/v3")>>
AT_API_KEY == "key"

(***************************************************************************)
(* The wall clock, counted in whole hours; the process starts in the last  *)
(* hour of day 1.                                                          *)
(***************************************************************************)
StartInstant == 2 * HoursPerDay - 1

Digit(n) == <<"0", "1", "2", "3", "4", "5", "6", "7", "8", "9">>[n + 1]
TwoDigits(n) == <<Digit((n \div 10) % 10), Digit(n % 10)>>

\* datetime.strftime("%Y-%m-%d"): the calendar date of instant t, written
\* as the number of its day.
strftime_date(t) == TwoDigits(t \div HoursPerDay)

\* datetime.strftime("%H"): the hour of the day of instant t, 00-23.
strftime_hour(t) == TwoDigits(t % HoursPerDay)

(***************************************************************************)
(* The state.                                                              *)
(***************************************************************************)
VARIABLES
    self,           \* the ATService instance of app.py: base_url, api_key, headers
    now,            \* the wall clock (datetime.now())
    pc,             \* where each invocation is
    op,             \* the tool each invocation runs
    arg,            \* the argument the tool was called with
    name,           \* the local name / stop_id once stripped
    journey_date,   \* what _get_date_time() returned to the invocation
    journey_hour,   \* what _get_hour() returned to the invocation
    hour_instant,   \* history: the instant at which _get_hour() read the clock
    url,            \* the local url
    reply,          \* history: what the upstream answered to the invocation
    stops,          \* the dict _make_request returned (stops / stop_trips)
    ret,            \* what the invocation returned or raised
    calls           \* history: network calls issued by the invocation

vars == <<self, now, pc, op, arg, name, journey_date, journey_hour,
          hour_instant, url, reply, stops, ret, calls>>

locals == <<op, arg, name, journey_date, journey_hour, hour_instant, url,
            reply, stops, ret, calls>>

NoReturn == [kind |-> "none", exc |-> "", data |-> <<>>]
Value(data) == [kind |-> "value", exc |-> "", data |-> data]
Raised(exc) == [kind |-> "error", exc |-> exc, data |-> <<>>]

\* ATService.__init__
ATService ==
    [base_url |-> AT_BASE_URL,
     api_key |-> AT_API_KEY,
     headers |-> [h \in {"Content-Type", "Cache-Control", "Ocp-Apim-Subscription-Key"} |->
                    CASE h = "Content-Type" -> "application/json"
                      [] h = "Cache-Control" -> "no-cache"
                      [] OTHER -> AT_API_KEY]]

Init ==
    /\ self = ATService
    /\ now = StartInstant
    /\ pc = [i \in Invocations |-> "idle"]
    /\ op = [i \in Invocations |-> "none"]
    /\ arg = [i \in Invocations |-> None]
    /\ name = [i \in Invocations |-> <<>>]
    /\ journey_date = [i \in Invocations |-> <<>>]
    /\ journey_hour = [i \in Invocations |-> <<>>]
    /\ hour_instant = [i \in Invocations |-> 0]
    /\ url = [i \in Invocations |-> <<>>]
    /\ reply = [i \in Invocations |-> TransportFailure]
    /\ stops = [i \in Invocations |-> ErrorObject]
    /\ ret = [i \in Invocations |-> NoReturn]
    /\ calls = [i \in Invocations |-> 0]


(***************************************************************************)
(* ATService: the helpers.                                                 *)
(***************************************************************************)
\* ATService._get_url: the base URL followed by the formatted template.
_get_url(key, kwargs) == self.base_url \o format(URL_MAP[key], kwargs)

\* A filter that compares without lower-casing.
found_stops_case_sensitive(n, data) ==
    SelectSeq(data, LAMBDA stop : contains(stop.attributes.stop_name, n))

\* The loop of search_stop: the stops whose lower-cased stop_name contains
\* the lower-cased search term, appended in the order of the response.
found_stops(n, data) ==
    SelectSeq(data, LAMBDA stop : contains(lower(stop.attributes.stop_name), lower(n)))

(***************************************************************************)
(* The steps of an invocation.                                             *)
(***************************************************************************)
\* A search_stop whose guard tests only  name is None.
search_stop_none_only(i, n) ==
    /\ pc[i] = "idle"
    /\ op' = [op EXCEPT ![i] = "search_stop"]
    /\ arg' = [arg EXCEPT ![i] = n]
    /\ IF n.isNone
       THEN /\ ret' = [ret EXCEPT ![i] = Value(<<>>)]
            /\ pc' = [pc EXCEPT ![i] = "done"]
            /\ name' = name
       ELSE /\ name' = [name EXCEPT ![i] = strip(n.str)]
            /\ pc' = [pc EXCEPT ![i] = "date"]
            /\ ret' = ret
    /\ UNCHANGED <<self, now, journey_date, journey_hour, hour_instant, url,
                   reply, stops, calls>>

\* The tool search_stop is called: the guard on the argument, then strip().
search_stop(i, n) ==
    /\ pc[i] = "idle"
    /\ op' = [op EXCEPT ![i] = "search_stop"]
    /\ arg' = [arg EXCEPT ![i] = n]
    /\ IF n.isNone \/ n.str = <<>>
       THEN /\ ret' = [ret EXCEPT ![i] = Value(<<>>)]
            /\ pc' = [pc EXCEPT ![i] = "done"]
            /\ name' = name
       ELSE /\ name' = [name EXCEPT ![i] = strip(n.str)]
            /\ pc' = [pc EXCEPT ![i] = "date"]
            /\ ret' = ret
    /\ UNCHANGED <<self, now, journey_date, journey_hour, hour_instant, url,
                   reply, stops, calls>>

\* A get_stop_trips_by_stop_id whose guard tests only  stop_id is None.
get_stop_trips_none_only(i, stop_id) ==
    /\ pc[i] = "idle"
    /\ op' = [op EXCEPT ![i] = "get_stop_trips_by_stop_id"]
    /\ arg' = [arg EXCEPT ![i] = stop_id]
    /\ IF stop_id.isNone
       THEN /\ ret' = [ret EXCEPT ![i] = Value(<<>>)]
            /\ pc' = [pc EXCEPT ![i] = "done"]
            /\ name' = name
       ELSE /\ name' = [name EXCEPT ![i] = strip(stop_id.str)]
            /\ pc' = [pc EXCEPT ![i] = "date"]
            /\ ret' = ret
    /\ UNCHANGED <<self, now, journey_date, journey_hour, hour_instant, url,
                   reply, stops, calls>>

\* The tool get_stop_trips_by_stop_id is called: the guard, then strip().
get_stop_trips_by_stop_id(i, stop_id) ==
    /\ pc[i] = "idle"
    /\ op' = [op EXCEPT ![i] = "get_stop_trips_by_stop_id"]
    /\ arg' = [arg EXCEPT ![i] = stop_id]
    /\ IF stop_id.isNone \/ stop_id.str = <<>>
       THEN /\ ret' = [ret EXCEPT ![i] = Value(<<>>)]
            /\ pc' = [pc EXCEPT ![i] = "done"]
            /\ name' = name
       ELSE /\ name' = [name EXCEPT ![i] = strip(stop_id.str)]
            /\ pc' = [pc EXCEPT ![i] = "date"]
            /\ ret' = ret
    /\ UNCHANGED <<self, now, journey_date, journey_hour, hour_instant, url,
                   reply, stops, calls>>

\* A _get_url that keeps the URL it built in self.base_url.
_get_date_time_keeps_url(i) ==
    /\ pc[i] = "date"
    /\ journey_date' = [journey_date EXCEPT ![i] = strftime_date(now)]
    /\ IF op[i] = "search_stop"
       THEN /\ url' = [url EXCEPT ![i] =
                         _get_url("search_stop", [journey_date |-> strftime_date(now)])]
            /\ self' = [self EXCEPT !.base_url =
                         _get_url("search_stop", [journey_date |-> strftime_date(now)])]
            /\ pc' = [pc EXCEPT ![i] = "request"]
       ELSE /\ url' = url
            /\ self' = self
            /\ pc' = [pc EXCEPT ![i] = "hour"]
    /\ UNCHANGED <<now, op, arg, name, journey_hour, hour_instant, reply,
                   stops, ret, calls>>

\* _get_date_time() reads the clock; search_stop then builds its URL.
_get_date_time(i) ==
    /\ pc[i] = "date"
    /\ journey_date' = [journey_date EXCEPT ![i] = strftime_date(now)]
    /\ IF op[i] = "search_stop"
       THEN /\ url' = [url EXCEPT ![i] =
                         _get_url("search_stop", [journey_date |-> strftime_date(now)])]
            /\ pc' = [pc EXCEPT ![i] = "request"]
       ELSE /\ url' = url
            /\ pc' = [pc EXCEPT ![i] = "hour"]
    /\ UNCHANGED <<self, now, op, arg, name, journey_hour, hour_instant, reply,
                   stops, ret, calls>>

\* _get_hour() reads the clock again; get_stop_trips_by_stop_id then builds
\* its URL from the stop_id, the date read before and the hour.
_get_hour(i) ==
    /\ pc[i] = "hour"
    /\ journey_hour' = [journey_hour EXCEPT ![i] = strftime_hour(now)]
    /\ hour_instant' = [hour_instant EXCEPT ![i] = now]
    /\ url' = [url EXCEPT ![i] =
                 _get_url("stop_trips_by_stop_id",
                          [stop_id |-> name[i], journey_date |-> journey_date[i],
                           journey_hour |-> strftime_hour(now)])]
    /\ pc' = [pc EXCEPT ![i] = "request"]
    /\ UNCHANGED <<self, now, op, arg, name, journey_date, reply, stops, ret, calls>>

\* A _make_request that tries again, up to three times, when no response
\* arrives.
_make_request_retry(i, r) ==
    /\ pc[i] = "request"
    /\ calls' = [calls EXCEPT ![i] = @ + 1]
    /\ reply' = [reply EXCEPT ![i] = r]
    /\ IF ~r.sent /\ calls[i] < 2
       THEN UNCHANGED <<ret, pc, stops>>
       ELSE IF ~r.sent
       THEN /\ ret' = [ret EXCEPT ![i] = Raised("ConnectionError")]
            /\ pc' = [pc EXCEPT ![i] = "raised"]
            /\ stops' = stops
       ELSE IF ~r.body.json
       THEN /\ ret' = [ret EXCEPT ![i] = Raised("JSONDecodeError")]
            /\ pc' = [pc EXCEPT ![i] = "raised"]
            /\ stops' = stops
       ELSE /\ stops' = [stops EXCEPT ![i] = r.body]
            /\ pc' = [pc EXCEPT ![i] = "validate"]
            /\ ret' = ret
    /\ UNCHANGED <<self, now, op, arg, name, journey_date, journey_hour,
                   hour_instant, url>>

\* A _make_request that calls response.raise_for_status() before
\* response.json().
_make_request_raise_for_status(i, r) ==
    /\ pc[i] = "request"
    /\ calls' = [calls EXCEPT ![i] = @ + 1]
    /\ reply' = [reply EXCEPT ![i] = r]
    /\ IF ~r.sent
       THEN /\ ret' = [ret EXCEPT ![i] = Raised("ConnectionError")]
            /\ pc' = [pc EXCEPT ![i] = "raised"]
            /\ stops' = stops
       ELSE IF r.status >= 400
       THEN /\ ret' = [ret EXCEPT ![i] = Raised("HTTPError")]
            /\ pc' = [pc EXCEPT ![i] = "raised"]
            /\ stops' = stops
       ELSE IF ~r.body.json
       THEN /\ ret' = [ret EXCEPT ![i] = Raised("JSONDecodeError")]
            /\ pc' = [pc EXCEPT ![i] = "raised"]
            /\ stops' = stops
       ELSE /\ stops' = [stops EXCEPT ![i] = r.body]
            /\ pc' = [pc EXCEPT ![i] = "validate"]
            /\ ret' = ret
    /\ UNCHANGED <<self, now, op, arg, name, journey_date, journey_hour,
                   hour_instant, url>>

\* _make_request: one requests.request, which raises when no response
\* arrives, then response.json(), which raises when the body is not JSON.
\* The status code is not looked at.
_make_request(i, r) ==
    /\ pc[i] = "request"
    /\ calls' = [calls EXCEPT ![i] = @ + 1]
    /\ reply' = [reply EXCEPT ![i] = r]
    /\ IF ~r.sent
       THEN /\ ret' = [ret EXCEPT ![i] = Raised("ConnectionError")]
            /\ pc' = [pc EXCEPT ![i] = "raised"]
            /\ stops' = stops
       ELSE IF ~r.body.json
       THEN /\ ret' = [ret EXCEPT ![i] = Raised("JSONDecodeError")]
            /\ pc' = [pc EXCEPT ![i] = "raised"]
            /\ stops' = stops
       ELSE /\ stops' = [stops EXCEPT ![i] = r.body]
            /\ pc' = [pc EXCEPT ![i] = "validate"]
            /\ ret' = ret
    /\ UNCHANGED <<self, now, op, arg, name, journey_date, journey_hour,
                   hour_instant, url>>

\* search_stop after the request: validation, then the filter.
search_stop_filter(i) ==
    /\ pc[i] = "validate"
    /\ op[i] = "search_stop"
    /\ LET stop_response == StopResponse_model_validate(stops[i])
       IN  IF stop_response.ok
           THEN /\ ret' = [ret EXCEPT ![i] = Value(found_stops(name[i], stop_response.data))]
                /\ pc' = [pc EXCEPT ![i] = "done"]
           ELSE /\ ret' = [ret EXCEPT ![i] = Raised("ValidationError")]
                /\ pc' = [pc EXCEPT ![i] = "raised"]
    /\ UNCHANGED <<self, now, op, arg, name, journey_date, journey_hour,
                   hour_instant, url, reply, stops, calls>>

\* A get_stop_trips_by_stop_id that keeps only the trips of the stop asked
\* for.
get_stop_trips_validate_filtered(i) ==
    /\ pc[i] = "validate"
    /\ op[i] = "get_stop_trips_by_stop_id"
    /\ LET stop_trip_response == StopTripResponse_model_validate(stops[i])
       IN  IF stop_trip_response.ok
           THEN /\ ret' = [ret EXCEPT ![i] =
                             Value(SelectSeq(stop_trip_response.data,
                                     LAMBDA t : t.attributes.stop_id = name[i]))]
                /\ pc' = [pc EXCEPT ![i] = "done"]
           ELSE /\ ret' = [ret EXCEPT ![i] = Raised("ValidationError")]
                /\ pc' = [pc EXCEPT ![i] = "raised"]
    /\ UNCHANGED <<self, now, op, arg, name, journey_date, journey_hour,
                   hour_instant, url, reply, stops, calls>>

\* get_stop_trips_by_stop_id after the request: validation, then the return.
get_stop_trips_validate(i) ==
    /\ pc[i] = "validate"
    /\ op[i] = "get_stop_trips_by_stop_id"
    /\ LET stop_trip_response == StopTripResponse_model_validate(stops[i])
       IN  IF stop_trip_response.ok
           THEN /\ ret' = [ret EXCEPT ![i] = Value(stop_trip_response.data)]
                /\ pc' = [pc EXCEPT ![i] = "done"]
           ELSE /\ ret' = [ret EXCEPT ![i] = Raised("ValidationError")]
                /\ pc' = [pc EXCEPT ![i] = "raised"]
    /\ UNCHANGED <<self, now, op, arg, name, journey_date, journey_hour,
                   hour_instant, url, reply, stops, calls>>

\* The tool of app.py hands the value, or the uncaught exception, to the
\* hosting runtime; the invocation's objects are discarded.
tool_return(i) ==
    /\ pc[i] \in {"done", "raised"}
    /\ pc' = [pc EXCEPT ![i] = "idle"]
    /\ op' = [op EXCEPT ![i] = "none"]
    /\ arg' = [arg EXCEPT ![i] = None]
    /\ name' = [name EXCEPT ![i] = <<>>]
    /\ journey_date' = [journey_date EXCEPT ![i] = <<>>]
    /\ journey_hour' = [journey_hour EXCEPT ![i] = <<>>]
    /\ hour_instant' = [hour_instant EXCEPT ![i] = 0]
    /\ url' = [url EXCEPT ![i] = <<>>]
    /\ reply' = [reply EXCEPT ![i] = TransportFailure]
    /\ stops' = [stops EXCEPT ![i] = ErrorObject]
    /\ ret' = [ret EXCEPT ![i] = NoReturn]
    /\ calls' = [calls EXCEPT ![i] = 0]
    /\ UNCHANGED <<self, now>>

\* The wall clock moves into the next hour.
Tick ==
    /\ now - StartInstant < MaxTicks
    /\ now' = now + 1
    /\ UNCHANGED <<self, pc, locals>>

(***************************************************************************)
(* Spec: the hosting runtime dispatches one invocation at a time, with     *)
(* every argument up to MaxLen and every reply up to MaxRecords.           *)
(***************************************************************************)
AllIdle == \A j \in Invocations : pc[j] = "idle"

Next ==
    \/ AllIdle /\ \E i \in Invocations, n \in Inputs : search_stop(i, n)
    \/ AllIdle /\ \E i \in Invocations, n \in Inputs : get_stop_trips_by_stop_id(i, n)
    \/ \E i \in Invocations : _get_date_time(i)
    \/ \E i \in Invocations : _get_hour(i)
    \/ \E i \in Invocations : pc[i] = "request" /\ \E r \in Replies(op[i]) : _make_request(i, r)
    \/ \E i \in Invocations : search_stop_filter(i)
    \/ \E i \in Invocations : get_stop_trips_validate(i)
    \/ \E i \in Invocations : tool_return(i)
    \/ Tick

Spec == Init /\ [][Next]_vars

(***************************************************************************)
(* SpecConc: the hosting runtime dispatches invocations concurrently on    *)
(* the one shared client; arguments and replies are drawn from a few       *)
(* representatives.                                                        *)
(***************************************************************************)
ConcInputs == {None, Str(<<"a", " ">>)}

ConcStopReplies ==
    {TransportFailure,
     HTTP(200, JsonData(<<RawStop("1", <<"A", "b">>), RawStop("5", <<"b">>)>>)),
     HTTP(500, JsonData(<<RawStop("1", <<"A", "b">>),
                          Without(RawStop("3", <<"a">>), "stop_lat")>>))}

ConcStopTripReplies ==
    {TransportFailure,
     HTTP(200, JsonData(<<RawStopTrip("t1", <<"a">>), RawStopTrip("t2", <<"b">>)>>)),
     HTTP(500, JsonData(<<RawStopTrip("t1", <<"a">>),
                          Without(RawStopTrip("t3", <<"a">>), "arrival_time")>>))}

ConcReplies(o) == IF o = "search_stop" THEN ConcStopReplies ELSE ConcStopTripReplies

NextConc ==
    \/ \E i \in Invocations, n \in ConcInputs : search_stop(i, n)
    \/ \E i \in Invocations, n \in ConcInputs : get_stop_trips_by_stop_id(i, n)
    \/ \E i \in Invocations : _get_date_time(i)
    \/ \E i \in Invocations : _get_hour(i)
    \/ \E i \in Invocations : pc[i] = "request" /\ \E r \in ConcReplies(op[i]) : _make_request(i, r)
    \/ \E i \in Invocations : search_stop_filter(i)
    \/ \E i \in Invocations : get_stop_trips_validate(i)
    \/ \E i \in Invocations : tool_return(i)
    \/ Tick

SpecConc == Init /\ [][NextConc]_vars


(***************************************************************************)
(* The properties.                                                         *)
(***************************************************************************)
Finished(i) == pc[i] \in {"done", "raised"}

\* The argument is absent (None) or the empty string.
EmptyOrAbsent(a) == a.isNone \/ a.str = <<>>

\* The reply carries a "data" list all of whose records match the schema.
SchemaValid(envelope, attributes, r) ==
    /\ r.sent
    /\ r.body.json
    /\ r.body.hasData
    /\ \A k \in 1..Len(r.body.data) : ValidRecord(envelope, attributes, r.body.data[k])

\* C1: an invocation of search_stop whose name is None or "" has returned
\* a StopResponse with an empty data list and has issued no network call.
C1_EmptyNameShortCircuit ==
    \A i \in Invocations :
        (op[i] = "search_stop" /\ EmptyOrAbsent(arg[i])) =>
            /\ pc[i] = "done"
            /\ ret[i] = Value(<<>>)
            /\ calls[i] = 0
            /\ url[i] = <<>>

C1_Witness ==
    \E i \in Invocations :
        op[i] = "search_stop" /\ arg[i] = Str(<<>>) /\ pc[i] = "done"

\* C2: an invocation of get_stop_trips_by_stop_id whose stop_id is None or
\* "" has returned a StopTripResponse with an empty data list and has issued
\* no network call.
C2_EmptyStopIdShortCircuit ==
    \A i \in Invocations :
        (op[i] = "get_stop_trips_by_stop_id" /\ EmptyOrAbsent(arg[i])) =>
            /\ pc[i] = "done"
            /\ ret[i] = Value(<<>>)
            /\ calls[i] = 0
            /\ url[i] = <<>>

C2_Witness ==
    \E i \in Invocations :
        op[i] = "get_stop_trips_by_stop_id" /\ arg[i] = None /\ pc[i] = "done"

\* stop_name holds the term somewhere, letters compared without regard to case.
HoldsTerm(stop_name, term) ==
    \E k \in 0..(Len(stop_name) - Len(term)) :
        \A j \in 1..Len(term) : LowerChar(stop_name[k + j]) = LowerChar(term[j])

\* The positions of the upstream list whose stop_name holds the term.
MatchingPositions(up, term) ==
    {k \in 1..Len(up) : HoldsTerm(up[k].attributes.stop_name.v, term)}

\* The j-th smallest element of a set of positions.
Kth(M, j) == CHOOSE k \in M : Cardinality({m \in M : m <= k}) = j

\* C3: for a non-empty name and a schema-valid upstream stop list,
\* search_stop returns exactly the upstream stops whose stop_name (as
\* stored) contains the name stripped of leading and trailing whitespace,
\* compared case-insensitively: all of them, no other, in upstream order.
C3_SearchReturnsMatchesInOrder ==
    \A i \in Invocations :
        (/\ op[i] = "search_stop"
         /\ ~EmptyOrAbsent(arg[i])
         /\ Finished(i)
         /\ SchemaValid(Stop, StopAttributes, reply[i])) =>
            LET up == reply[i].body.data
                M == MatchingPositions(up, strip(arg[i].str))
            IN  /\ pc[i] = "done"
                /\ ret[i].kind = "value"
                /\ Len(ret[i].data) = Cardinality(M)
                /\ \A j \in 1..Len(ret[i].data) :
                       ret[i].data[j] = ParseRecord(Stop, StopAttributes, up[Kth(M, j)])

\* A padded query that one of two upstream stops matches.
C3_Witness ==
    \E i \in Invocations :
        /\ op[i] = "search_stop"
        /\ pc[i] = "done"
        /\ arg[i].str # strip(arg[i].str)
        /\ strip(arg[i].str) # <<>>
        /\ Len(reply[i].body.data) = 2
        /\ Len(ret[i].data) = 1
        /\ ret[i].data[1].id = reply[i].body.data[2].id.v

\* C4: for a non-empty stop_id and a schema-valid upstream stop-trip list,
\* get_stop_trips_by_stop_id returns the upstream list as it is: every
\* record, in the same order, none filtered out.
C4_StopTripsVerbatim ==
    \A i \in Invocations :
        (/\ op[i] = "get_stop_trips_by_stop_id"
         /\ ~EmptyOrAbsent(arg[i])
         /\ Finished(i)
         /\ SchemaValid(StopTrip, StopTripAttributes, reply[i])) =>
            LET up == reply[i].body.data
            IN  /\ pc[i] = "done"
                /\ ret[i].kind = "value"
                /\ Len(ret[i].data) = Len(up)
                /\ \A k \in 1..Len(up) :
                       ret[i].data[k] = ParseRecord(StopTrip, StopTripAttributes, up[k])

\* Trips of another stop than the one asked for are returned too.
C4_Witness ==
    \E i \in Invocations :
        /\ op[i] = "get_stop_trips_by_stop_id"
        /\ pc[i] = "done"
        /\ Len(ret[i].data) = 2
        /\ ret[i].data[1].attributes.stop_id # name[i]
        /\ ret[i].data[2].attributes.stop_id = name[i]

\* C5: an invocation issues at most one network call; once a call has
\* failed the invocation is at its end, having raised, with that one call.
C5_AtMostOneCall ==
    \A i \in Invocations :
        /\ calls[i] <= 1
        /\ (calls[i] = 1 /\ ~SchemaValid(IF op[i] = "search_stop" THEN Stop ELSE StopTrip,
                                        IF op[i] = "search_stop" THEN StopAttributes
                                        ELSE StopTripAttributes, reply[i])
              /\ pc[i] # "validate") => pc[i] = "raised"
        /\ ret[i].kind = "error" => (pc[i] = "raised" /\ calls[i] = 1)

\* A transport failure after which the invocation has ended.
C5_Witness ==
    \E i \in Invocations :
        pc[i] = "raised" /\ ~reply[i].sent /\ calls[i] = 1


\* The schema a tool validates its reply against.
EnvelopeOf(o) == IF o = "search_stop" THEN Stop ELSE StopTrip
AttributesOf(o) == IF o = "search_stop" THEN StopAttributes ELSE StopTripAttributes

\* The reply has a "data" list with at least one record that misses a
\* required field or has a field of the wrong type.
HasMalformedRecord(o, r) ==
    /\ r.sent
    /\ r.body.json
    /\ r.body.hasData
    /\ \E k \in 1..Len(r.body.data) :
           ~ValidRecord(EnvelopeOf(o), AttributesOf(o), r.body.data[k])

\* C6: an invocation that issued its request and met a transport failure, or
\* a body with at least one malformed record, never holds a response value:
\* it ends having raised, with no data at all.
C6_FailureRaisesNoValue ==
    \A i \in Invocations :
        (calls[i] = 1 /\ (~reply[i].sent \/ HasMalformedRecord(op[i], reply[i]))) =>
            /\ ret[i].kind # "value"
            /\ ret[i].data = <<>>
            /\ pc[i] \in {"validate", "raised"}
            /\ pc[i] = "raised" =>
                   ret[i] = Raised(IF reply[i].sent THEN "ValidationError"
                                   ELSE "ConnectionError")

\* A well-formed record followed by a malformed one: the invocation raised.
C6_Witness ==
    \E i \in Invocations :
        /\ pc[i] = "raised"
        /\ reply[i].sent
        /\ reply[i].body.hasData
        /\ Len(reply[i].body.data) = 2
        /\ ValidRecord(EnvelopeOf(op[i]), AttributesOf(op[i]), reply[i].body.data[1])
        /\ ~ValidRecord(EnvelopeOf(op[i]), AttributesOf(op[i]), reply[i].body.data[2])

\* The URL an invocation builds when it runs alone on the client as it was
\* initialised, from its own argument and its own readings of the clock.
AloneUrl(o, a, date, hour) ==
    IF o = "search_stop"
    THEN ATService.base_url \o format(URL_MAP.search_stop, [journey_date |-> date])
    ELSE ATService.base_url \o
            format(URL_MAP.stop_trips_by_stop_id,
                   [stop_id |-> strip(a.str), journey_date |-> date, journey_hour |-> hour])

\* What an invocation returns or raises when it runs alone, from its own
\* argument and the reply it got.
AloneOutcome(o, a, r) ==
    IF EmptyOrAbsent(a) THEN Value(<<>>)
    ELSE IF ~r.sent THEN Raised("ConnectionError")
    ELSE IF ~r.body.json THEN Raised("JSONDecodeError")
    ELSE IF ~SchemaValid(EnvelopeOf(o), AttributesOf(o), r) THEN Raised("ValidationError")
    ELSE LET all == [k \in 1..Len(r.body.data) |->
                        ParseRecord(EnvelopeOf(o), AttributesOf(o), r.body.data[k])]
         IN  IF o = "search_stop"
             THEN Value(SelectSeq(all, LAMBDA stop :
                            HoldsTerm(stop.attributes.stop_name, strip(a.str))))
             ELSE Value(all)

\* C7: with invocations interleaved on the shared client, the client's
\* configuration stays what __init__ set, and every invocation builds the
\* URL and ends with the outcome it would have when run alone with the same
\* argument, clock readings and reply.
C7_InvocationsIndependent ==
    /\ self = ATService
    /\ \A i \in Invocations :
          /\ pc[i] \in {"request", "validate", "done", "raised"} /\ ~EmptyOrAbsent(arg[i])
                => url[i] = AloneUrl(op[i], arg[i], journey_date[i], journey_hour[i])
          /\ Finished(i) => ret[i] = AloneOutcome(op[i], arg[i], reply[i])

\* Two invocations of different tools, both past their request, one having
\* returned a value while the other raised.
C7_Witness ==
    \E i, j \in Invocations :
        /\ op[i] = "search_stop" /\ pc[i] = "done" /\ calls[i] = 1 /\ Len(ret[i].data) = 1
        /\ op[j] = "get_stop_trips_by_stop_id" /\ pc[j] = "raised" /\ calls[j] = 1
        /\ journey_date[i] # journey_date[j]

\* C8: the outcome does not depend on the status code: a body that is not
\* JSON ends in a JSON decoding error, a JSON body that does not match the
\* schema in a validation error, never in an HTTP error, and a body that
\* matches the schema is returned as a value, whatever the status.
C8_StatusCodeIgnored ==
    \A i \in Invocations :
        (Finished(i) /\ calls[i] = 1 /\ reply[i].sent) =>
            /\ ret[i].exc \in {"", "JSONDecodeError", "ValidationError"}
            /\ ~reply[i].body.json => ret[i] = Raised("JSONDecodeError")
            /\ (reply[i].body.json
                  /\ ~SchemaValid(EnvelopeOf(op[i]), AttributesOf(op[i]), reply[i]))
                   => ret[i] = Raised("ValidationError")
            /\ SchemaValid(EnvelopeOf(op[i]), AttributesOf(op[i]), reply[i])
                   => (pc[i] = "done" /\ ret[i].kind = "value")

\* A non-success response whose body matches the schema, returned as a value.
C8_Witness ==
    \E i \in Invocations :
        /\ pc[i] = "done"
        /\ reply[i].sent
        /\ reply[i].status = 500
        /\ Len(reply[i].body.data) = 2
        /\ Len(ret[i].data) = 2

\* C9: the date and the hour in the URL of get_stop_trips_by_stop_id are
\* those of one instant: the date is the calendar date of the instant at
\* which the hour was read.
C9_DateAndHourOfOneInstant ==
    \A i \in Invocations :
        (op[i] = "get_stop_trips_by_stop_id" /\ calls[i] = 1) =>
            /\ UrlArg(url[i], "journey_hour") = strftime_hour(hour_instant[i])
            /\ UrlArg(url[i], "journey_date") = strftime_date(hour_instant[i])

=============================================================================
